---- MODULE Spec2Model ----
(***************************************************************************)
(* ArgoVisor monitor (src/Dockerfile lines 30-449 hold                      *)
(* src/services/ArgoVisor.js): the refresh orchestrator, the snapshot      *)
(* cache, and the per-cluster alert state machine.                         *)
(*                                                                         *)
(* Node.js runs one continuation at a time: every action below is one      *)
(* synchronous run of a handler from an await's resolution to the next     *)
(* await.  Time is measured in units of 60 s: the refresh interval          *)
(* (updateInterval, 60000 ms) and the snapshot TTL (60 s) are one unit;     *)
(* every request has a timeout of 30000 ms, so the clock advances at most   *)
(* once while a cycle waits for its clusters (login + listing) or for one   *)
(* Slack post.                                                             *)
(*                                                                         *)
(* Four specifications share the module.  Spec is the monitor as a whole: *)
(* cycles, snapshot cache, alert evaluation.  SpecCollect is the fan-out   *)
(* collector on its own, poll by poll, with the token cache; its clock     *)
(* tnow counts units of 1750 s, half the token TTL of 3500 s.  SpecAgg     *)
(* applies the aggregation and the endpoint filters to sequences of        *)
(* cluster results drawn from a bounded set.  SpecSched is the scheduling   *)
(* of the cycles against the snapshot TTL, with a clock in units of 30 s,   *)
(* the request timeout.  Each specification leaves the variables of the     *)
(* others at their initial values.                                         *)
(***************************************************************************)
EXTENDS Integers, Sequences, FiniteSets, TLC

VARIABLES
    clock,        \* Date.now(), in time units
    isUpdating,   \* ArgoVisor.isUpdating, the busy flag
    lastAlerts,   \* ArgoVisor.lastAlerts: Map cluster name -> time of last alert
    globalCache,  \* ArgoVisor.globalCache: NodeCache key -> [v, t] (value, expiry)
    pc,           \* per caller: where its refreshData() invocation is suspended
    settled,      \* per caller: the cluster promises of processClustersInBatches that
                  \* have settled
    evalNow,      \* per caller: `now` of its sendSlackUpdates
    evalResults,  \* per caller: `results` of its sendSlackUpdates
    evalIdx,      \* per caller: position of the for..of loop of sendSlackUpdates
    outbox,       \* per caller: the Slack message whose post is awaited
    timer,        \* the setInterval of startBackgroundRefresh: "off", "due" or "fired"
    ticked,       \* the clock has advanced during the network wait in progress
    event,        \* history: the latest refresh call since the cycle in flight began
    cycle,        \* history: the alert evaluation of the latest cycle
    lastStored,   \* history: the snapshot most recently passed to globalCache.set
    \* the collector (SpecCollect)
    tnow,         \* Date.now(), in units of 1750 s
    tokenCache,   \* ArgoVisor.tokenCache: NodeCache key -> [v, t] (token, expiry)
    poll,         \* per cluster: where its processCluster call is suspended, and the
                  \* token its listing request carries
    promises,     \* per cluster: its entry of clusterPromises
    order,        \* history: the clusters in the order their promises settled
    batch,        \* processClustersInBatches: "idle", "running" or "done"
    batchResults, \* what the latest processClustersInBatches returned
    getLog,       \* history, per cluster: its latest getArgoCDToken and login
    answers,      \* history, per cluster: what the cluster answered in this batch
    notices,      \* history: the posts the alert evaluation makes for batchResults
    alertLog,     \* history: `now` of that alert evaluation, lastAlerts before and after it
    \* aggregation and endpoints (SpecAgg)
    aggInput,     \* the cluster results of the snapshot
    aggOut,       \* the latest value computed from aggInput
    \* the scheduler against the snapshot TTL (SpecSched)
    snow,         \* Date.now(), in units of 30 s
    sphase,       \* where the refreshData in flight is suspended
    swait,        \* the time the await in progress has taken so far
    sposts,       \* the Slack posts the cycle in flight has still to make
    stimer,       \* when the setInterval callback is next due (0: not registered)
    scache,       \* ArgoVisor.globalCache: NodeCache key -> [v, t]
    scompleted,   \* history: a cycle has run to completion
    sstalled,     \* history: a callback found the previous cycle still in flight
    sexpiredSeen  \* history: a getGlobalState() call made after the first completed
                  \* cycle returned the empty snapshot

monitorVars == <<clock, isUpdating, lastAlerts, globalCache, pc, settled, evalNow,
                 evalResults, evalIdx, outbox, timer, ticked, event, cycle, lastStored>>
collectVars == <<tnow, tokenCache, poll, promises, order, batch, batchResults,
                 getLog, answers, notices, alertLog>>
aggVars == <<aggInput, aggOut>>
schedVars == <<snow, sphase, swait, sposts, stimer, scache, scompleted, sstalled,
               sexpiredSeen>>

vars == <<monitorVars, collectVars, aggVars, schedVars>>

----------------------------------------------------------------------------
(* Bounds of the model *)

\* Date.now() runs from 1 to MaxTime
MaxTime == 4

(* Program constants, in time units of 60 s *)

\* globalCache stdTTL: 60 (seconds)
stdTTL == 1
\* this.alertInterval = process.env.ALERT_INTERVAL || 24 h; here ALERT_INTERVAL=120000
alertInterval == 2

\* config/clusters.js, in Object.entries order
ClusterNames == <<"CLUSTER_1", "CLUSTER_2">>
ClusterIdx == 1..Len(ClusterNames)

\* ArgoCDCluster.url
ClusterUrl(name) == <<"https://", name>>

\* CACHE_KEYS.GLOBAL_STATE
GLOBAL_STATE == "global_state"

\* The invocations of refreshData() that can be suspended at once: one made
\* directly (the constructor's initial refresh, the setInterval callback, POST
\* /clusters/:name/sync) and one made through forceRefresh() (POST /refresh).
\* A call that finds the busy flag set returns or throws without suspending.
Callers == {"refreshData", "forceRefresh"}

----------------------------------------------------------------------------
(* Application names are sequences of text fragments, so that               *)
(* String.includes (substring) and Array.includes (equality) differ.        *)

N_argocd_apps == <<"argocd-", "apps">>
N_argocd_initialize == <<"argocd-", "initialize">>
N_my_argocd_apps == <<"my-", "argocd-", "apps">>
N_web == <<"web">>
N_api == <<"api">>
N_Unknown == <<"Unknown">>

\* EXCLUDED_APPS default of ArgoVisorApi.js
EXCLUDED_APPS == {N_argocd_apps, N_argocd_initialize}

\* String.prototype.includes: needle occurs as a contiguous part of s
StrIncludes(s, needle) ==
    \E i \in 0..(Len(s) - Len(needle)) :
        \A j \in 1..Len(needle) : s[i + j] = needle[j]

\* a || b on strings: the empty (or absent) string is falsy
OrElse(a, b) == IF a = "" THEN b ELSE a

----------------------------------------------------------------------------
(* Upstream responses of a cluster in one cycle *)

RawItem(n, h, s) == [name |-> n, health |-> h, sync |-> s]

\* what the login and the application listing of one cluster can answer: a
\* failure of either (both end in the catch of getApplications), a listing without
\* items, or a listing with items
Responses ==
    { [kind |-> "error",   items |-> <<>>],
      [kind |-> "noItems", items |-> <<>>],
      [kind |-> "items", items |-> <<RawItem(N_argocd_apps, "", "OutOfSync"),
                                     RawItem(N_web, "Healthy", "Synced")>>],
      [kind |-> "items", items |-> <<RawItem(N_web, "Degraded", "Synced"),
                                     RawItem(N_api, "Healthy", "OutOfSync")>>],
      [kind |-> "items", items |-> <<RawItem(N_argocd_initialize, "Degraded", "Synced"),
                                     RawItem(N_my_argocd_apps, "Missing", "Synced")>>] }

\* getApplications: the items, or [] on a login or fetch error or no items
getApplications(resp) ==
    IF resp.kind = "items" THEN resp.items ELSE <<>>

\* processCluster's apps.map callback
MapApp(app) ==
    [name         |-> IF app.name = <<>> THEN N_Unknown ELSE app.name,
     healthStatus |-> OrElse(app.health, "Unknown"),
     syncStatus   |-> OrElse(app.sync, "Unknown")]

\* processCluster with the .catch of processClustersInBatches: an empty or failed
\* fetch throws and is downgraded to a result with no applications
processCluster(name, resp) ==
    LET apps == getApplications(resp) IN
    IF Len(apps) = 0
    THEN [name |-> name, url |-> ClusterUrl(name), applications |-> <<>>]
    ELSE [name |-> name, url |-> ClusterUrl(name), applications |-> [i \in 1..Len(apps) |-> MapApp(apps[i])]]

----------------------------------------------------------------------------
(* Metrics *)

getEmptyMetrics ==
    [totalApps |-> 0, healthyApps |-> 0, syncedApps |-> 0, degradedApps |-> 0,
     failedApps |-> 0, outOfSyncApps |-> 0, unknownApps |-> 0, processingApps |-> 0]

B2N(b) == IF b THEN 1 ELSE 0

\* mutant: the seven tests chained with else, so that an application counted
\* under its health status is not counted under its sync status
CountAppElseIf(m, app) ==
    IF app.healthStatus = "Healthy" THEN [m EXCEPT !.healthyApps = @ + 1]
    ELSE IF app.healthStatus = "Degraded" THEN [m EXCEPT !.degradedApps = @ + 1]
    ELSE IF app.healthStatus = "Failed" THEN [m EXCEPT !.failedApps = @ + 1]
    ELSE IF app.healthStatus = "Unknown" THEN [m EXCEPT !.unknownApps = @ + 1]
    ELSE IF app.syncStatus = "Synced" THEN [m EXCEPT !.syncedApps = @ + 1]
    ELSE IF app.syncStatus = "OutOfSync" THEN [m EXCEPT !.outOfSyncApps = @ + 1]
    ELSE IF app.syncStatus = "Processing" THEN [m EXCEPT !.processingApps = @ + 1]
    ELSE m

\* the body of calculateMetrics' inner forEach
CountApp(m, app) ==
    [m EXCEPT
        !.healthyApps    = @ + B2N(app.healthStatus = "Healthy"),
        !.degradedApps   = @ + B2N(app.healthStatus = "Degraded"),
        !.failedApps     = @ + B2N(app.healthStatus = "Failed"),
        !.unknownApps    = @ + B2N(app.healthStatus = "Unknown"),
        !.syncedApps     = @ + B2N(app.syncStatus = "Synced"),
        !.outOfSyncApps  = @ + B2N(app.syncStatus = "OutOfSync"),
        !.processingApps = @ + B2N(app.syncStatus = "Processing")]

RECURSIVE CountApps(_, _)
CountApps(m, apps) ==
    IF apps = <<>> THEN m ELSE CountApps(CountApp(m, Head(apps)), Tail(apps))

RECURSIVE CountResults(_, _)
CountResults(m, results) ==
    IF results = <<>> THEN m
    ELSE LET r == Head(results)
             m1 == [m EXCEPT !.totalApps = @ + Len(r.applications)]
         IN CountResults(CountApps(m1, r.applications), Tail(results))

calculateMetrics(results) == CountResults(getEmptyMetrics, results)

----------------------------------------------------------------------------
(* Snapshot cache (node-cache, stdTTL 60 s, deleteOnExpire) *)

\* mutant: the fallback of getGlobalState without its lastUpdate field
EmptyStateNoTimestamp == [metrics |-> getEmptyMetrics, clusters |-> <<>>]

\* the well-defined empty snapshot of getGlobalState; 0 stands for the null
\* lastUpdate (Date.now() is at least 1)
EmptyState == [metrics |-> getEmptyMetrics, clusters |-> <<>>, lastUpdate |-> 0]

\* mutant: an entry counted as expired from the instant its TTL ends
ExpiredAtDeadline(cache, key, t) == key \in DOMAIN cache /\ cache[key].t <= t

\* node-cache _check: an entry is expired once its t is before Date.now()
Expired(cache, key, t) == key \in DOMAIN cache /\ cache[key].t < t

\* mutant: a set that updates the cached object in place and leaves its metrics
CacheSetKeepingMetrics(cache, key, value, t) ==
    [k \in DOMAIN cache \cup {key} |->
        IF k # key THEN cache[k]
        ELSE IF key \in DOMAIN cache
             THEN [v |-> [value EXCEPT !.metrics = cache[key].v.metrics], t |-> t + stdTTL]
             ELSE [v |-> value, t |-> t + stdTTL]]

\* NodeCache.set with the standard TTL
CacheSet(cache, key, value, t) ==
    [k \in DOMAIN cache \cup {key} |->
        IF k = key THEN [v |-> value, t |-> t + stdTTL] ELSE cache[k]]

\* NodeCache.del
CacheDel(cache, key) == [k \in DOMAIN cache \ {key} |-> cache[k]]

\* the cache after NodeCache.get: an expired entry is deleted on the read
CacheAfterGet(cache, key, t) ==
    IF Expired(cache, key, t) THEN CacheDel(cache, key) ELSE cache

\* getGlobalState at time t: the cached state, or the empty one
GlobalStateAt(cache, t) ==
    IF GLOBAL_STATE \in DOMAIN cache /\ ~Expired(cache, GLOBAL_STATE, t)
    THEN cache[GLOBAL_STATE].v
    ELSE EmptyState

\* what getGlobalState() returns in the current state
getGlobalState == GlobalStateAt(globalCache, clock)

----------------------------------------------------------------------------
(* Alert state machine: sendSlackUpdates, formatAlert *)

\* mutant: the endpoints excluding by the substring test of sendSlackUpdates
NotInExclusionListBySubstring(app) == ~StrIncludes(app.name, N_argocd_apps)

\* ArgoVisorApi.js: app => !EXCLUDED_APPS.includes(app.name)
NotInExclusionList(app) == app.name \notin EXCLUDED_APPS

\* first filter of sendSlackUpdates: app => !app.name.includes('argocd-apps')
NotExcludedFromAlerts(app) == ~StrIncludes(app.name, N_argocd_apps)

\* second filter of sendSlackUpdates
IsProblematic(app) ==
    \/ app.healthStatus = "Unknown"
    \/ app.healthStatus = "Degraded"
    \/ app.healthStatus = "Missing"
    \/ app.syncStatus = "OutOfSync"

\* const problematicApps = result.applications.filter(...).filter(...)
problematicApps(applications) ==
    SelectSeq(SelectSeq(applications, NotExcludedFromAlerts), IsProblematic)

\* Map.get(name) is undefined or 0: !lastAlert
NoLastAlert(alerts, name) == name \notin DOMAIN alerts \/ alerts[name] = 0

\* mutant: the window compared in the wrong unit, so that any delay exceeds it
WindowElapsedAtOnce(now, lastAlert) == now - lastAlert > 0

\* now - lastAlert > this.alertInterval
WindowElapsed(now, lastAlert) == now - lastAlert > alertInterval

\* const shouldSendAlert = !lastAlert || (now - lastAlert > this.alertInterval)
shouldSendAlert(alerts, name, now) ==
    NoLastAlert(alerts, name) \/ WindowElapsed(now, alerts[name])

\* mutant: the recovery branch taken only for a result that lists applications
DecisionNoRecoveryWhenEmpty(result, alerts, now) ==
    LET problems == problematicApps(result.applications) IN
    IF Len(problems) > 0 /\ shouldSendAlert(alerts, result.name, now) THEN "problem"
    ELSE IF Len(problems) > 0 THEN "skipped"
    ELSE IF result.name \in DOMAIN alerts /\ Len(result.applications) > 0 THEN "recovery"
    ELSE "none"

\* the branch the loop body of sendSlackUpdates takes for one result
Decision(result, alerts, now) ==
    LET problems == problematicApps(result.applications) IN
    IF Len(problems) > 0 /\ shouldSendAlert(alerts, result.name, now) THEN "problem"
    ELSE IF Len(problems) > 0 THEN "skipped"
    ELSE IF result.name \in DOMAIN alerts THEN "recovery"
    ELSE "none"

AppName(app) == app.name
AppNames(apps) == [i \in 1..Len(apps) |-> AppName(apps[i])]

\* the filters of formatAlert's groupedApps
IsMissing(app) == app.healthStatus = "Missing"
IsUnknown(app) == app.healthStatus = "Unknown"
IsDegraded(app) == app.healthStatus = "Degraded"
IsOutOfSyncHealthy(app) == app.syncStatus = "OutOfSync" /\ app.healthStatus = "Healthy"

\* formatAlert: the applications listed under each heading of the message
formatAlert(clusterName, apps) ==
    [kind      |-> "problem",
     cluster   |-> clusterName,
     Missing   |-> AppNames(SelectSeq(apps, IsMissing)),
     Unknown   |-> AppNames(SelectSeq(apps, IsUnknown)),
     Degraded  |-> AppNames(SelectSeq(apps, IsDegraded)),
     OutOfSync |-> AppNames(SelectSeq(apps, IsOutOfSyncHealthy))]

\* the recovery message of sendSlackUpdates
recoveryMessage(clusterName) ==
    [kind |-> "recovery", cluster |-> clusterName,
     Missing |-> <<>>, Unknown |-> <<>>, Degraded |-> <<>>, OutOfSync |-> <<>>]

NoMessage ==
    [kind |-> "none", cluster |-> "",
     Missing |-> <<>>, Unknown |-> <<>>, Degraded |-> <<>>, OutOfSync |-> <<>>]

\* the message sendSlackUpdates posts for a result on the given branch
MessageFor(result, branch) ==
    IF branch = "problem"
    THEN formatAlert(result.name, problematicApps(result.applications))
    ELSE recoveryMessage(result.name)

\* the for..of loop of sendSlackUpdates run from position i without awaiting:
\* the position of the first result that needs a Slack post, or Len + 1
RECURSIVE NextDispatch(_, _, _, _)
NextDispatch(i, results, alerts, now) ==
    IF i > Len(results) THEN i
    ELSE IF Decision(results[i], alerts, now) \in {"problem", "recovery"} THEN i
    ELSE NextDispatch(i + 1, results, alerts, now)

\* Map.set / Map.delete
MapSet(m, k, v) == [x \in DOMAIN m \cup {k} |-> IF x = k THEN v ELSE m[x]]
MapDelete(m, k) == [x \in DOMAIN m \ {k} |-> m[x]]

\* lastAlerts after the post for results[i] has succeeded
AlertsAfterPost(alerts, result, branch, now) ==
    IF branch = "problem" THEN MapSet(alerts, result.name, now)
    ELSE MapDelete(alerts, result.name)

\* mutant: lastAlerts updated before the post is awaited, so that the update
\* stays when the post fails
AlertsRecordedBeforePost(alerts, result, branch, now) ==
    AlertsAfterPost(alerts, result, branch, now)

\* lastAlerts after the post for a result has failed: the throw of
\* sendSlackMessage leaves the loop before lastAlerts.set / lastAlerts.delete
AlertsAfterFailedPost(alerts, result, branch, now) == alerts

----------------------------------------------------------------------------
(* Fan-out collector: getArgoCDToken, getApplications, processCluster,      *)
(* processClustersInBatches                                                 *)

\* Date.now() of the collector runs from 1 to MaxTokenTime
MaxTokenTime == 4

\* this.tokenCache.set(cacheKey, response.data.token, 3500), in units of 1750 s
tokenTTL == 2

\* const cacheKey = `token_${cluster.name}`
TokenKey(name) == <<"token_", name>>

\* response.data.token of a login answered at time t
TokenOf(name, t) == [cluster |-> name, issued |-> t]
NoToken == TokenOf("", 0)

\* NodeCache.set with an explicit TTL
CacheSetTTL(cache, key, value, t, ttl) ==
    [k \in DOMAIN cache \cup {key} |->
        IF k = key THEN [v |-> value, t |-> t + ttl] ELSE cache[k]]

\* mutant: a get that hands out the entry whatever its age
TokenGetStale(cache, key, t) ==
    IF key \in DOMAIN cache THEN <<cache[key].v>> ELSE <<>>

\* this.tokenCache.get(cacheKey): the cached token, or nothing (undefined) when
\* there is no entry or the entry has expired
TokenGet(cache, key, t) ==
    IF key \in DOMAIN cache /\ ~Expired(cache, key, t) THEN <<cache[key].v>> ELSE <<>>

\* a cache after all its keys have been read, or after the periodic check: the
\* expired entries are deleted
CacheWithoutExpired(cache, t) ==
    [k \in {x \in DOMAIN cache : ~Expired(cache, x, t)} |-> cache[k]]

\* { name, url: cluster.url, applications: [] }
EmptyResult(name) == [name |-> name, url |-> ClusterUrl(name), applications |-> <<>>]

\* the entries of clusterPromises
PendingPromise(name) == [state |-> "pending", value |-> EmptyResult(name)]
Fulfilled(result) == [state |-> "fulfilled", value |-> result]

\* mutant: processClustersInBatches without the .catch on each processCluster
OnProcessErrorRethrown(name) == [state |-> "rejected", value |-> EmptyResult(name)]

\* .catch(error => { ...; return { name, url: cluster.url, applications: [] }; })
OnProcessError(name) == Fulfilled(EmptyResult(name))

\* processCluster(name, cluster).catch(...) once the listing has answered resp
PromiseAfterFetch(name, resp) ==
    IF Len(getApplications(resp)) = 0
    THEN OnProcessError(name)
    ELSE Fulfilled(processCluster(name, resp))

\* mutant: the results collected as the promises settle
InCompletionOrder(ps, ord) == [k \in 1..Len(ord) |-> ps[ord[k]].value]

\* await Promise.all(clusterPromises): the values in the order of the promises
PromiseAll(ps, ord) == [i \in ClusterIdx |-> ps[i].value]

\* the posts sendSlackUpdates makes for results from position i on when every
\* post succeeds
RECURSIVE Dispatches(_, _, _, _)
Dispatches(i, results, alerts, now) ==
    IF i > Len(results) THEN <<>>
    ELSE LET d == Decision(results[i], alerts, now) IN
         IF d \in {"problem", "recovery"}
         THEN <<[cluster |-> results[i].name, kind |-> d]>> \o
              Dispatches(i + 1, results, AlertsAfterPost(alerts, results[i], d, now), now)
         ELSE Dispatches(i + 1, results, alerts, now)

\* lastAlerts once sendSlackUpdates has run over results from position i on with
\* every post succeeding
RECURSIVE AlertsAfterDispatches(_, _, _, _)
AlertsAfterDispatches(i, results, alerts, now) ==
    IF i > Len(results) THEN alerts
    ELSE LET d == Decision(results[i], alerts, now) IN
         IF d \in {"problem", "recovery"}
         THEN AlertsAfterDispatches(i + 1, results,
                                    AlertsAfterPost(alerts, results[i], d, now), now)
         ELSE AlertsAfterDispatches(i + 1, results, alerts, now)

NoAlertLog == [now |-> 0, pre |-> [x \in {} |-> 0], post |-> [x \in {} |-> 0]]
IdlePoll == [at |-> "idle", token |-> NoToken, sentAt |-> 0]
NoGet == [at |-> 0, hit |-> FALSE, prior |-> 0, issued |-> 0]
NoAnswer == [kind |-> "none", items |-> <<>>]

CollectorInit ==
    /\ tnow = 1
    /\ tokenCache = [k \in {} |-> [v |-> NoToken, t |-> 0]]
    /\ poll = [i \in ClusterIdx |-> IdlePoll]
    /\ promises = [i \in ClusterIdx |-> PendingPromise(ClusterNames[i])]
    /\ order = <<>>
    /\ batch = "idle"
    /\ batchResults = <<>>
    /\ getLog = [i \in ClusterIdx |-> NoGet]
    /\ answers = [i \in ClusterIdx |-> NoAnswer]
    /\ notices = <<>>
    /\ alertLog = NoAlertLog

\* nothing has been computed from aggInput
NoOutput ==
    [op |-> "none", metrics |-> getEmptyMetrics, clusters |-> <<>>, messages |-> <<>>]

----------------------------------------------------------------------------
(* Orchestrator: refreshData, forceRefresh *)

EmptyMap == [x \in {} |-> 0]
NoEvent == [op |-> "none", result |-> "none"]
Pending == {}
NoCycle ==
    [results |-> <<>>, now |-> 0, pre |-> EmptyMap, posts |-> <<>>,
     evaluated |-> 0, finished |-> FALSE]

\* mutant: refreshData without its busy check
refreshDataNeverSkips(busy) == FALSE

\* refreshData: if (this.isUpdating) { ...; return; }
refreshDataSkips(busy) == busy

\* mutant: forceRefresh without its own busy check, relying on refreshData's
forceRefreshNeverThrows(busy) == FALSE

\* forceRefresh: if (this.isUpdating) throw new Error('Update already in progress')
forceRefreshThrows(busy) == busy

\* mutant: the flag cleared at the end of the try block instead of in finally
FlagClearedOnSuccessOnly(ok) == ~ok

\* refreshData: finally { this.isUpdating = false; } on success and on failure
FlagAfterCycle(ok) == FALSE

\* the cache once the caller's await of refreshData() has resumed: forceRefresh
\* goes on to return this.getGlobalState()
CacheAfterReturn(c, cache, t) ==
    IF c = "forceRefresh" THEN CacheAfterGet(cache, GLOBAL_STATE, t) ELSE cache

\* new ArgoVisor(...): the constructor ends with startBackgroundRefresh(), whose
\* refreshData() runs up to its first await
MonitorInit ==
    /\ clock = 1
    /\ isUpdating = TRUE
    /\ lastAlerts = EmptyMap
    /\ globalCache = [k \in {} |-> [v |-> EmptyState, t |-> 0]]
    /\ pc = [c \in Callers |-> IF c = "refreshData" THEN "collecting" ELSE "idle"]
    /\ settled = [c \in Callers |-> Pending]
    /\ evalNow = [c \in Callers |-> 0]
    /\ evalResults = [c \in Callers |-> <<>>]
    /\ evalIdx = [c \in Callers |-> 0]
    /\ outbox = [c \in Callers |-> NoMessage]
    /\ timer = "off"
    /\ ticked = FALSE
    /\ event = [op |-> "refreshData", result |-> "started"]
    /\ cycle = NoCycle
    /\ lastStored = EmptyState

\* the scheduler's view of the same construction, at Date.now() = 1
SchedInit ==
    /\ snow = 1
    /\ sphase = "collecting"
    /\ swait = 0
    /\ sposts = 0
    /\ stimer = 0
    /\ scache = [k \in {} |-> [v |-> EmptyState, t |-> 0]]
    /\ scompleted = FALSE
    /\ sstalled = FALSE
    /\ sexpiredSeen = FALSE

Init ==
    /\ MonitorInit
    /\ CollectorInit
    /\ SchedInit
    /\ aggInput = <<>>
    /\ aggOut = NoOutput

\* a minute passes: not before the interval callback due in this minute has run,
\* and not a second time within one network wait
Tick ==
    /\ clock < MaxTime
    /\ timer # "due"
    /\ isUpdating => ~ticked
    /\ clock' = clock + 1
    /\ timer' = IF timer = "fired" THEN "due" ELSE timer
    /\ ticked' = isUpdating
    /\ UNCHANGED <<isUpdating, lastAlerts, globalCache, pc, settled, evalNow,
                   evalResults, evalIdx, outbox, event, cycle, lastStored>>
    /\ UNCHANGED <<collectVars, aggVars, schedVars>>

\* refreshData up to its first await: the busy check, the flag, and the start of
\* every cluster's poll
StartCycle(c) ==
    /\ pc[c] = "idle"
    /\ isUpdating' = TRUE
    /\ pc' = [pc EXCEPT ![c] = "collecting"]
    /\ settled' = [settled EXCEPT ![c] = Pending]
    /\ event' = [op |-> c, result |-> "started"]
    /\ cycle' = NoCycle
    /\ ticked' = FALSE
    /\ UNCHANGED <<clock, lastAlerts, globalCache, evalNow, evalResults, evalIdx,
                   outbox, lastStored>>

\* refreshData returning at once because a cycle is in flight; the caller resumes
SkipCycle(c) ==
    /\ event' = [op |-> c, result |-> "skipped"]
    /\ globalCache' = CacheAfterReturn(c, globalCache, clock)
    /\ UNCHANGED <<clock, isUpdating, lastAlerts, pc, settled, evalNow, evalResults,
                   evalIdx, outbox, ticked, cycle, lastStored>>

\* a call of refreshData() by caller c, up to its first await or its return
refreshData(c) ==
    IF refreshDataSkips(isUpdating) THEN SkipCycle(c) ELSE StartCycle(c)

\* the setInterval callback of startBackgroundRefresh, once every updateInterval
TimerFire ==
    /\ timer = "due"
    /\ timer' = "fired"
    /\ refreshData("refreshData")
    /\ UNCHANGED <<collectVars, aggVars, schedVars>>

\* POST /clusters/:name/sync: await monitor.refreshData()
SyncRefresh ==
    /\ refreshData("refreshData")
    /\ UNCHANGED timer
    /\ UNCHANGED <<collectVars, aggVars, schedVars>>

\* POST /refresh: forceRefresh()
ForceRefresh ==
    /\ IF forceRefreshThrows(isUpdating)
       THEN /\ event' = [op |-> "forceRefresh", result |-> "BusyError"]
            /\ UNCHANGED <<clock, isUpdating, lastAlerts, globalCache, pc, settled,
                           evalNow, evalResults, evalIdx, outbox, ticked, cycle,
                           lastStored>>
       ELSE refreshData("forceRefresh")
    /\ UNCHANGED timer
    /\ UNCHANGED <<collectVars, aggVars, schedVars>>

\* mutant: the cluster promises awaited with Promise.any, which resumes at the
\* first promise that settles
FirstPromiseResolved(done) == done # {}

\* const results = await Promise.all(clusterPromises): refreshData resumes once
\* every cluster promise has settled
AllPromisesResolved(done) == done = ClusterIdx

\* one cluster's promise of processClustersInBatches settles.  What it settled
\* with is seen by nobody before Promise.all hands the results over, so the value
\* is drawn there
ClusterSettle(c, i) ==
    /\ pc[c] = "collecting"
    /\ i \notin settled[c]
    /\ settled' = [settled EXCEPT ![c] = @ \cup {i}]
    /\ UNCHANGED <<clock, isUpdating, lastAlerts, globalCache, pc, evalNow,
                   evalResults, evalIdx, outbox, timer, ticked, event, cycle,
                   lastStored>>
    /\ UNCHANGED <<collectVars, aggVars, schedVars>>

\* the cycle of caller c leaves refreshData through finally; ok is FALSE when it
\* came through catch.  The caller resumes: startBackgroundRefresh, after the
\* constructor's initial refresh, registers the interval callback
EndCycle(c, ok, cache) ==
    /\ isUpdating' = FlagAfterCycle(ok)
    /\ pc' = [pc EXCEPT ![c] = "idle"]
    /\ settled' = [settled EXCEPT ![c] = Pending]
    /\ evalNow' = [evalNow EXCEPT ![c] = 0]
    /\ evalResults' = [evalResults EXCEPT ![c] = <<>>]
    /\ evalIdx' = [evalIdx EXCEPT ![c] = 0]
    /\ outbox' = [outbox EXCEPT ![c] = NoMessage]
    /\ globalCache' = CacheAfterReturn(c, cache, clock)
    /\ timer' = IF timer = "off" /\ c = "refreshData" THEN "fired" ELSE timer
    /\ ticked' = FALSE
    /\ event' = NoEvent

\* sendSlackUpdates suspends in sendSlackMessage for results[j]
AwaitPost(c, results, now, j, alerts, cache) ==
    /\ pc' = [pc EXCEPT ![c] = "posting"]
    /\ evalNow' = [evalNow EXCEPT ![c] = now]
    /\ evalResults' = [evalResults EXCEPT ![c] = results]
    /\ evalIdx' = [evalIdx EXCEPT ![c] = j]
    /\ outbox' = [outbox EXCEPT ![c] =
                    MessageFor(results[j], Decision(results[j], alerts, now))]
    /\ globalCache' = cache
    /\ ticked' = FALSE
    /\ UNCHANGED <<isUpdating, settled, timer, event>>

\* the entry of the history for the post of results[j]
PostEntry(results, j, alerts, now, status) ==
    [cluster |-> results[j].name, kind |-> Decision(results[j], alerts, now),
     status |-> status]

\* Promise.all has resolved with what the clusters answered: calculateMetrics,
\* globalCache.set, then sendSlackUpdates up to its first Slack post (or to its end
\* when nothing is to be sent).  results, globalState and j are bound as the
\* single elements of sets so that each is computed once per step
CollectDone(c, resps) ==
    /\ pc[c] = "collecting"
    /\ AllPromisesResolved(settled[c])
    /\ \E results \in {[i \in ClusterIdx |-> processCluster(ClusterNames[i], resps[i])]} :
       \E globalState \in {[metrics |-> calculateMetrics(results),
                            clusters |-> results,
                            lastUpdate |-> clock]} :
       \E j \in {NextDispatch(1, results, lastAlerts, clock)} :
       LET cache == CacheSet(globalCache, GLOBAL_STATE, globalState, clock)
           now == clock
       IN /\ lastStored' = globalState
          /\ IF j > Len(results)
             THEN /\ EndCycle(c, TRUE, cache)
                  /\ cycle' = [results |-> results, now |-> now, pre |-> lastAlerts,
                               posts |-> <<>>, evaluated |-> Len(results),
                               finished |-> TRUE]
             ELSE /\ AwaitPost(c, results, now, j, lastAlerts, cache)
                  /\ cycle' = [results |-> results, now |-> now, pre |-> lastAlerts,
                               posts |-> <<PostEntry(results, j, lastAlerts, now, "pending")>>,
                               evaluated |-> j - 1, finished |-> FALSE]
    /\ UNCHANGED <<clock, lastAlerts>>
    /\ UNCHANGED <<collectVars, aggVars, schedVars>>

\* the history with its pending post resolved
Resolved(posts, status) == [posts EXCEPT ![Len(posts)].status = status]

\* the Slack post resolves: lastAlerts is updated and the loop runs on to the next
\* post or to the end of sendSlackUpdates
PostSucceeds(c) ==
    /\ pc[c] = "posting"
    /\ LET results == evalResults[c]
           now == evalNow[c]
           i == evalIdx[c]
           alerts == AlertsAfterPost(lastAlerts, results[i], outbox[c].kind, now)
           j == NextDispatch(i + 1, results, alerts, now)
       IN /\ lastAlerts' = alerts
          /\ IF j > Len(results)
             THEN /\ EndCycle(c, TRUE, globalCache)
                  /\ cycle' = [cycle EXCEPT !.posts = Resolved(@, "ok"),
                                            !.evaluated = Len(results),
                                            !.finished = TRUE]
             ELSE /\ AwaitPost(c, results, now, j, alerts, globalCache)
                  /\ cycle' = [cycle EXCEPT
                                 !.posts = Append(Resolved(@, "ok"),
                                             PostEntry(results, j, alerts, now, "pending")),
                                 !.evaluated = j - 1]
    /\ UNCHANGED <<clock, lastStored>>
    /\ UNCHANGED <<collectVars, aggVars, schedVars>>

\* the Slack post rejects: sendSlackMessage and sendSlackUpdates rethrow, refreshData
\* catches and logs
PostFails(c) ==
    /\ pc[c] = "posting"
    /\ EndCycle(c, FALSE, globalCache)
    /\ cycle' = [cycle EXCEPT !.posts = Resolved(@, "failed"), !.finished = TRUE]
    /\ lastAlerts' = AlertsAfterFailedPost(lastAlerts, evalResults[c][evalIdx[c]],
                                            outbox[c].kind, evalNow[c])
    /\ UNCHANGED <<clock, lastStored>>
    /\ UNCHANGED <<collectVars, aggVars, schedVars>>

\* a reader (GET /test, /metrics, /applications, /status) calls getGlobalState():
\* NodeCache.get deletes the entry when it has expired
GetGlobalState ==
    /\ globalCache' = CacheAfterGet(globalCache, GLOBAL_STATE, clock)
    /\ UNCHANGED <<clock, isUpdating, lastAlerts, pc, settled, evalNow, evalResults,
                   evalIdx, outbox, timer, ticked, event, cycle, lastStored>>
    /\ UNCHANGED <<collectVars, aggVars, schedVars>>

\* node-cache's periodic check (checkperiod 30 s) deletes the expired entry
CheckData ==
    /\ Expired(globalCache, GLOBAL_STATE, clock)
    /\ globalCache' = CacheDel(globalCache, GLOBAL_STATE)
    /\ UNCHANGED <<clock, isUpdating, lastAlerts, pc, settled, evalNow, evalResults,
                   evalIdx, outbox, timer, ticked, event, cycle, lastStored>>
    /\ UNCHANGED <<collectVars, aggVars, schedVars>>

Next ==
    \/ Tick
    \/ TimerFire
    \/ SyncRefresh
    \/ ForceRefresh
    \/ \E c \in Callers, i \in ClusterIdx : ClusterSettle(c, i)
    \/ \E c \in Callers, resps \in [ClusterIdx -> Responses] : CollectDone(c, resps)
    \/ \E c \in Callers : PostSucceeds(c)
    \/ \E c \in Callers : PostFails(c)
    \/ GetGlobalState
    \/ CheckData

Spec == Init /\ [][Next]_vars

----------------------------------------------------------------------------
(* The collector, poll by poll *)

\* time passes; a batch, whose requests time out after 30 s, sees the clock
\* advance at most once
CollectorTick ==
    /\ tnow < MaxTokenTime
    /\ batch = "running" => \A i \in ClusterIdx : getLog[i].at = tnow
    /\ tnow' = tnow + 1
    /\ UNCHANGED <<tokenCache, poll, promises, order, batch, batchResults, getLog,
                   answers, notices, alertLog>>
    /\ UNCHANGED <<monitorVars, aggVars, schedVars>>

\* processClustersInBatches up to its await: every cluster's processCluster runs
\* through getApplications into getArgoCDToken, which either finds a token in the
\* cache (the listing request goes out with it) or sends the login request
StartBatch ==
    /\ batch \in {"idle", "done"}
    /\ batch' = "running"
    /\ poll' = [i \in ClusterIdx |->
                  LET cached == TokenGet(tokenCache, TokenKey(ClusterNames[i]), tnow) IN
                  IF cached # <<>>
                  THEN [at |-> "fetch", token |-> cached[1], sentAt |-> tnow]
                  ELSE [at |-> "login", token |-> NoToken, sentAt |-> 0]]
    /\ getLog' = [i \in ClusterIdx |->
                    [at |-> tnow,
                     hit |-> TokenGet(tokenCache, TokenKey(ClusterNames[i]), tnow) # <<>>,
                     prior |-> getLog[i].issued,
                     issued |-> getLog[i].issued]]
    /\ tokenCache' = CacheWithoutExpired(tokenCache, tnow)
    /\ promises' = [i \in ClusterIdx |-> PendingPromise(ClusterNames[i])]
    /\ order' = <<>>
    /\ batchResults' = <<>>
    /\ answers' = [i \in ClusterIdx |-> NoAnswer]
    /\ notices' = <<>>
    /\ alertLog' = NoAlertLog
    /\ UNCHANGED tnow
    /\ UNCHANGED <<monitorVars, aggVars, schedVars>>

\* the login of cluster i answers with a token: it is cached and the listing
\* request goes out with it
LoginSucceeds(i) ==
    /\ batch = "running"
    /\ poll[i].at = "login"
    /\ LET token == TokenOf(ClusterNames[i], tnow) IN
       /\ tokenCache' = CacheSetTTL(tokenCache, TokenKey(ClusterNames[i]), token,
                                    tnow, tokenTTL)
       /\ poll' = [poll EXCEPT ![i] = [at |-> "fetch", token |-> token, sentAt |-> tnow]]
       /\ getLog' = [getLog EXCEPT ![i].issued = tnow]
    /\ UNCHANGED <<tnow, promises, order, batch, batchResults, answers, notices,
                   alertLog>>
    /\ UNCHANGED <<monitorVars, aggVars, schedVars>>

\* the login of cluster i fails or answers without a token: getArgoCDToken throws,
\* getApplications returns [], processCluster throws, the .catch settles the promise
LoginFails(i) ==
    /\ batch = "running"
    /\ poll[i].at = "login"
    /\ poll' = [poll EXCEPT ![i].at = "settled"]
    /\ promises' = [promises EXCEPT ![i] = OnProcessError(ClusterNames[i])]
    /\ order' = Append(order, i)
    /\ answers' = [answers EXCEPT ![i] = [kind |-> "loginError", items |-> <<>>]]
    /\ UNCHANGED <<tnow, tokenCache, batch, batchResults, getLog, notices, alertLog>>
    /\ UNCHANGED <<monitorVars, aggVars, schedVars>>

\* the listing of cluster i answers (or fails) and its promise settles
FetchSettles(i, resp) ==
    /\ batch = "running"
    /\ poll[i].at = "fetch"
    /\ poll' = [poll EXCEPT ![i].at = "settled"]
    /\ promises' = [promises EXCEPT ![i] = PromiseAfterFetch(ClusterNames[i], resp)]
    /\ order' = Append(order, i)
    /\ answers' = [answers EXCEPT ![i] =
                      [kind |-> IF resp.kind = "error" THEN "fetchError" ELSE resp.kind,
                       items |-> resp.items]]
    /\ UNCHANGED <<tnow, tokenCache, batch, batchResults, getLog, notices, alertLog>>
    /\ UNCHANGED <<monitorVars, aggVars, schedVars>>

\* Promise.all settles: it resolves once every promise is fulfilled and rejects as
\* soon as one is rejected, which the catch of processClustersInBatches turns into
\* [].  notices is what the alert evaluation then posts, for the AlertState of the
\* clusters in had
BatchResolves(had) ==
    /\ batch = "running"
    /\ \/ \A i \in ClusterIdx : promises[i].state = "fulfilled"
       \/ \E i \in ClusterIdx : promises[i].state = "rejected"
    /\ batch' = "done"
    /\ \E results \in {IF \E i \in ClusterIdx : promises[i].state = "rejected"
                        THEN <<>> ELSE PromiseAll(promises, order)} :
       \E alerts \in {[n \in {ClusterNames[i] : i \in had} |-> 1]} :
          /\ batchResults' = results
          /\ notices' = Dispatches(1, results, alerts, tnow)
          /\ alertLog' = [now |-> tnow, pre |-> alerts,
                          post |-> AlertsAfterDispatches(1, results, alerts, tnow)]
    /\ UNCHANGED <<tnow, tokenCache, poll, promises, order, getLog, answers>>
    /\ UNCHANGED <<monitorVars, aggVars, schedVars>>

\* the periodic check of the token cache (checkperiod 60 s)
TokenCheck ==
    /\ \E k \in DOMAIN tokenCache : Expired(tokenCache, k, tnow)
    /\ tokenCache' = CacheWithoutExpired(tokenCache, tnow)
    /\ UNCHANGED <<tnow, poll, promises, order, batch, batchResults, getLog,
                   answers, notices, alertLog>>
    /\ UNCHANGED <<monitorVars, aggVars, schedVars>>

NextCollect ==
    \/ CollectorTick
    \/ StartBatch
    \/ \E i \in ClusterIdx : LoginSucceeds(i)
    \/ \E i \in ClusterIdx : LoginFails(i)
    \/ \E i \in ClusterIdx, resp \in Responses : FetchSettles(i, resp)
    \/ \E had \in SUBSET ClusterIdx : BatchResolves(had)
    \/ TokenCheck

SpecCollect == Init /\ [][NextCollect]_vars

----------------------------------------------------------------------------
(* Aggregation and the endpoint filters, applied to drawn cluster results *)

\* the longest application list of the first cluster result drawn
MaxApps == 2

HealthStatuses == {"Healthy", "Progressing", "Degraded", "Missing", "Unknown", "Failed"}
SyncStatuses == {"Synced", "OutOfSync", "Processing", "Unknown"}

\* the applications drawn: one name under every pair of statuses, and the names
\* that matter to the exclusion list under one pair
AggApps ==
    {[name |-> N_web, healthStatus |-> h, syncStatus |-> y] :
        h \in HealthStatuses, y \in SyncStatuses}
    \cup {[name |-> n, healthStatus |-> "Degraded", syncStatus |-> "OutOfSync"] :
            n \in {N_argocd_apps, N_argocd_initialize, N_my_argocd_apps}}

\* the application lists of the second cluster result drawn
AggSecondLists ==
    { <<>>,
      <<[name |-> N_web, healthStatus |-> "Healthy", syncStatus |-> "Synced"]>>,
      <<[name |-> N_argocd_initialize, healthStatus |-> "Degraded",
         syncStatus |-> "OutOfSync"]>> }

\* the sequences of cluster results drawn: one result per configured cluster
AggInputs ==
    {<<[name |-> ClusterNames[1], url |-> ClusterUrl(ClusterNames[1]), applications |-> a],
       [name |-> ClusterNames[2], url |-> ClusterUrl(ClusterNames[2]), applications |-> b]>> :
        a \in UNION {[1..n -> AggApps] : n \in 0..MaxApps}, b \in AggSecondLists}

\* the body of calculateFilteredMetrics' inner forEach
FilteredCountApp(m, app) == CountApp([m EXCEPT !.totalApps = @ + 1], app)

RECURSIVE FilteredCountApps(_, _)
FilteredCountApps(m, apps) ==
    IF apps = <<>> THEN m
    ELSE FilteredCountApps(FilteredCountApp(m, Head(apps)), Tail(apps))

\* calculateFilteredMetrics' clusters.forEach
RECURSIVE FilteredCountClusters(_, _)
FilteredCountClusters(m, clusters) ==
    IF clusters = <<>> THEN m
    ELSE FilteredCountClusters(
            FilteredCountApps(m, SelectSeq(Head(clusters).applications, NotInExclusionList)),
            Tail(clusters))

\* ArgoVisorApi.js calculateFilteredMetrics
calculateFilteredMetrics(clusters) == FilteredCountClusters(getEmptyMetrics, clusters)

\* GET /applications: formattedClusters
formattedClusters(clusters) ==
    [i \in 1..Len(clusters) |->
        [name |-> clusters[i].name,
         url |-> clusters[i].url,
         applications |-> SelectSeq(clusters[i].applications, NotInExclusionList)]]

InitAgg ==
    /\ MonitorInit
    /\ CollectorInit
    /\ SchedInit
    /\ aggInput \in AggInputs
    /\ aggOut = NoOutput

\* refreshData: const metrics = this.calculateMetrics(clusterResults)
Aggregate ==
    /\ aggOut' = [op |-> "calculateMetrics", metrics |-> calculateMetrics(aggInput),
                  clusters |-> aggInput, messages |-> <<>>]
    /\ UNCHANGED <<aggInput, monitorVars, collectVars, schedVars>>

\* GET /metrics on a snapshot whose clusters are aggInput
GetMetrics ==
    /\ aggOut' = [op |-> "/metrics", metrics |-> calculateFilteredMetrics(aggInput),
                  clusters |-> <<>>, messages |-> <<>>]
    /\ UNCHANGED <<aggInput, monitorVars, collectVars, schedVars>>

\* GET /applications on a snapshot whose clusters are aggInput
GetApplications ==
    /\ aggOut' = [op |-> "/applications", metrics |-> getEmptyMetrics,
                  clusters |-> formattedClusters(aggInput), messages |-> <<>>]
    /\ UNCHANGED <<aggInput, monitorVars, collectVars, schedVars>>

\* the messages sendSlackUpdates posts for results from position i on when every
\* post succeeds
RECURSIVE PostedMessages(_, _, _, _)
PostedMessages(i, results, alerts, now) ==
    IF i > Len(results) THEN <<>>
    ELSE LET d == Decision(results[i], alerts, now) IN
         IF d \in {"problem", "recovery"}
         THEN <<MessageFor(results[i], d)>> \o
              PostedMessages(i + 1, results, AlertsAfterPost(alerts, results[i], d, now), now)
         ELSE PostedMessages(i + 1, results, alerts, now)

\* refreshData: await this.sendSlackUpdates(clusterResults), for the first
\* evaluation (lastAlerts is empty) at Date.now() = 1
SendSlackUpdates ==
    /\ aggOut' = [op |-> "sendSlackUpdates", metrics |-> getEmptyMetrics,
                  clusters |-> aggInput,
                  messages |-> PostedMessages(1, aggInput, EmptyMap, 1)]
    /\ UNCHANGED <<aggInput, monitorVars, collectVars, schedVars>>

NextAgg == Aggregate \/ GetMetrics \/ GetApplications \/ SendSlackUpdates

SpecAgg == InitAgg /\ [][NextAgg]_vars

----------------------------------------------------------------------------
(* The scheduler against the snapshot TTL: startBackgroundRefresh,          *)
(* refreshData and the globalCache, in time units of 30 s                   *)

\* Date.now() of the scheduler runs from 1 to MaxSchedTime
MaxSchedTime == 6

\* this.updateInterval = process.env.UPDATE_INTERVAL || 60000 (ms)
updateInterval == 2
\* globalCache stdTTL: 60 (seconds)
snapshotTTL == 2
\* createAxiosInstance: timeout: 30000 (ms), for every request
requestTimeout == 1
\* the requests one cluster's poll makes one after the other: login, listing
PollRequests == 2

\* how long the await in progress can take: Promise.all waits for the slowest
\* poll, a Slack post is one request
MaxWait(phase) ==
    IF phase = "collecting" THEN PollRequests * requestTimeout
    ELSE IF phase = "posting" THEN requestTimeout
    ELSE 0

\* 30 s pass: not before the interval callback due now has run, and not beyond
\* the timeout of the requests awaited
SchedTick ==
    /\ snow < MaxSchedTime
    /\ stimer # snow
    /\ sphase # "idle" => swait < MaxWait(sphase)
    /\ snow' = snow + 1
    /\ swait' = IF sphase = "idle" THEN 0 ELSE swait + 1
    /\ UNCHANGED <<sphase, sposts, stimer, scache, scompleted, sstalled, sexpiredSeen>>
    /\ UNCHANGED <<monitorVars, collectVars, aggVars>>

\* the setInterval callback: refreshData returns at once when a cycle is in
\* flight, and starts one otherwise
SchedTimerFire ==
    /\ stimer = snow
    /\ stimer' = stimer + updateInterval
    /\ IF refreshDataSkips(sphase # "idle")
       THEN /\ sstalled' = TRUE
            /\ UNCHANGED <<sphase, swait>>
       ELSE /\ sphase' = "collecting"
            /\ swait' = 0
            /\ UNCHANGED sstalled
    /\ UNCHANGED <<snow, sposts, scache, scompleted, sexpiredSeen>>
    /\ UNCHANGED <<monitorVars, collectVars, aggVars>>

\* refreshData leaves through finally; startBackgroundRefresh, resumed after the
\* initial refresh, registers the interval callback
SchedEndCycle ==
    /\ sphase' = "idle"
    /\ swait' = 0
    /\ sposts' = 0
    /\ stimer' = IF stimer = 0 THEN snow + updateInterval ELSE stimer
    /\ scompleted' = TRUE

\* Promise.all has resolved: calculateMetrics, globalCache.set, then
\* sendSlackUpdates, which has n Slack posts to make
SchedCollectDone(resps, n) ==
    /\ sphase = "collecting"
    /\ \E results \in {[i \in ClusterIdx |-> processCluster(ClusterNames[i], resps[i])]} :
          scache' = CacheSetTTL(scache, GLOBAL_STATE,
                                [metrics |-> calculateMetrics(results),
                                 clusters |-> results,
                                 lastUpdate |-> snow],
                                snow, snapshotTTL)
    /\ IF n = 0
       THEN SchedEndCycle
       ELSE /\ sphase' = "posting"
            /\ swait' = 0
            /\ sposts' = n
            /\ UNCHANGED <<stimer, scompleted>>
    /\ UNCHANGED <<snow, sstalled, sexpiredSeen>>
    /\ UNCHANGED <<monitorVars, collectVars, aggVars>>

\* the Slack post awaited resolves: the loop goes on to the next post or ends
SchedPostSucceeds ==
    /\ sphase = "posting"
    /\ IF sposts = 1
       THEN SchedEndCycle
       ELSE /\ sposts' = sposts - 1
            /\ swait' = 0
            /\ UNCHANGED <<sphase, stimer, scompleted>>
    /\ UNCHANGED <<snow, scache, sstalled, sexpiredSeen>>
    /\ UNCHANGED <<monitorVars, collectVars, aggVars>>

\* the Slack post awaited rejects: the cycle ends through catch and finally
SchedPostFails ==
    /\ sphase = "posting"
    /\ SchedEndCycle
    /\ UNCHANGED <<snow, scache, sstalled, sexpiredSeen>>
    /\ UNCHANGED <<monitorVars, collectVars, aggVars>>

\* a reader calls getGlobalState(): NodeCache.get deletes an expired entry
SchedRead ==
    /\ scache' = CacheAfterGet(scache, GLOBAL_STATE, snow)
    /\ sexpiredSeen' = (sexpiredSeen
                          \/ (scompleted /\ GlobalStateAt(scache, snow) = EmptyState))
    /\ UNCHANGED <<snow, sphase, swait, sposts, stimer, scompleted, sstalled>>
    /\ UNCHANGED <<monitorVars, collectVars, aggVars>>

NextSched ==
    \/ SchedTick
    \/ SchedTimerFire
    \/ \E resps \in [ClusterIdx -> Responses], n \in 0..Len(ClusterNames) :
          SchedCollectDone(resps, n)
    \/ SchedPostSucceeds
    \/ SchedPostFails
    \/ SchedRead

SpecSched == Init /\ [][NextSched]_vars

----------------------------------------------------------------------------
(* Properties of the orchestrator *)

\* the callers whose refresh cycle is in flight
InFlight == {c \in Callers : pc[c] # "idle"}

\* C1: at every moment at most one refresh cycle is in flight, whatever the
\* interleaving of the initial refresh, timer ticks, forceRefresh() and direct
\* refreshData() calls; and a clear busy flag means no cycle is in flight, so no
\* call is ever started next to a running cycle.
C1_AtMostOneCycleInFlight ==
    /\ Cardinality(InFlight) <= 1
    /\ ~isUpdating => InFlight = {}

\* C1 witness: a cycle is awaiting its Slack post and a call made meanwhile was
\* turned away
C1_Witness ==
    /\ pc["refreshData"] = "posting"
    /\ pc["forceRefresh"] = "idle"
    /\ event.result = "BusyError"

\* C2: every cycle that ends, on success or through a failed pipeline step, leaves
\* the busy flag cleared; whenever no cycle is in flight the flag is clear, so a
\* later refreshData() or forceRefresh() starts a new cycle.
C2_FlagClearedOnExit ==
    /\ [](InFlight = {} => ~isUpdating)
    /\ [][\A c \in Callers : (pc[c] # "idle" /\ pc'[c] = "idle") => ~isUpdating']_vars

\* C2 witness: a cycle has ended through a failed Slack post and the flag is clear
C2_Witness ==
    /\ cycle.finished
    /\ \E p \in 1..Len(cycle.posts) : cycle.posts[p].status = "failed"
    /\ InFlight = {}
    /\ ~isUpdating

\* C3: while a cycle is in flight, forceRefresh() fails with the BusyError and a
\* direct refreshData() returns silently; neither starts a cycle nor changes the
\* snapshot, the AlertState or the busy flag.
C3_RejectedWhileBusy ==
    [][(isUpdating /\ event' # event /\ event'.op # "none") =>
          /\ event'.result = IF event'.op = "forceRefresh" THEN "BusyError" ELSE "skipped"
          /\ UNCHANGED <<isUpdating, lastAlerts, globalCache, pc, settled, evalNow,
                         evalResults, evalIdx, outbox, ticked, cycle, lastStored>>]_vars

\* C3 witness: a forceRefresh() has been turned away by a cycle that is collecting
\* while a snapshot of an earlier cycle is stored
C3_Witness ==
    /\ isUpdating
    /\ pc["refreshData"] = "collecting"
    /\ event = [op |-> "forceRefresh", result |-> "BusyError"]
    /\ GLOBAL_STATE \in DOMAIN globalCache

----------------------------------------------------------------------------
(* Properties of the alert state machine, read off the history of the      *)
(* latest evaluation: cycle.pre is lastAlerts when sendSlackUpdates began,  *)
(* cycle.now its `now`, cycle.posts the Slack posts it made.                *)

EvalIdx == 1..Len(cycle.results)
EvalName(i) == cycle.results[i].name
EvalProblems(i) == problematicApps(cycle.results[i].applications)
HadAlertState(i) == EvalName(i) \in DOMAIN cycle.pre
PostsOf(i, kind) ==
    {p \in 1..Len(cycle.posts) :
        cycle.posts[p].cluster = EvalName(i) /\ cycle.posts[p].kind = kind}
AnyPostOf(i) == PostsOf(i, "problem") \cup PostsOf(i, "recovery")
AllPostsOk == \A p \in 1..Len(cycle.posts) : cycle.posts[p].status = "ok"
\* the loop body of sendSlackUpdates has run for results[i]
Evaluated(i) == i <= cycle.evaluated \/ AnyPostOf(i) # {}

\* C4: a cluster with no AlertState and a non-empty problem set gets exactly one
\* problem alert in the cycle, and lastAlert = now is recorded for it.
C4_CleanToAlerting ==
    cycle.finished =>
        \A i \in EvalIdx :
            (~HadAlertState(i) /\ Len(EvalProblems(i)) > 0) =>
                /\ Cardinality(PostsOf(i, "problem")) = 1
                /\ EvalName(i) \in DOMAIN lastAlerts
                /\ lastAlerts[EvalName(i)] = cycle.now

\* C5: a cluster with a non-empty problem set and a prior alert at T, evaluated at
\* now with now - T < alertInterval, gets no Slack post and keeps lastAlert = T.
C5_DedupSuppression ==
    \A i \in EvalIdx :
        (/\ HadAlertState(i)
         /\ Len(EvalProblems(i)) > 0
         /\ cycle.now - cycle.pre[EvalName(i)] < alertInterval) =>
            /\ AnyPostOf(i) = {}
            /\ EvalName(i) \in DOMAIN lastAlerts
            /\ lastAlerts[EvalName(i)] = cycle.pre[EvalName(i)]

\* C5 witness: an evaluation at T + alertInterval - 1 has run to its end past a
\* cluster that still has problems, and made no post for it
C5_Witness ==
    /\ cycle.finished
    /\ \E i \in EvalIdx :
        /\ HadAlertState(i)
        /\ Len(EvalProblems(i)) > 0
        /\ cycle.now = cycle.pre[EvalName(i)] + alertInterval - 1
        /\ AnyPostOf(i) = {}
        /\ cycle.evaluated = Len(cycle.results)

\* C6: a cluster with a non-empty problem set and a prior alert at T, evaluated at
\* now >= T + alertInterval (now = T + alertInterval included), gets exactly one
\* problem alert and lastAlert = now.  Stated for the cycles in which every Slack
\* post succeeded, so that only the window test decides it.
C6_WindowExpiry ==
    (cycle.finished /\ AllPostsOk) =>
        \A i \in EvalIdx :
            (/\ HadAlertState(i)
             /\ Len(EvalProblems(i)) > 0
             /\ cycle.now >= cycle.pre[EvalName(i)] + alertInterval) =>
                /\ Cardinality(PostsOf(i, "problem")) = 1
                /\ lastAlerts[EvalName(i)] = cycle.now

\* C7: a cluster with AlertState that is evaluated with an empty problem set gets
\* exactly one recovery notice and loses its AlertState (so a further clean
\* evaluation sends nothing); a cluster with no AlertState and an empty problem set
\* causes no post.
C7_OneShotRecovery ==
    cycle.finished =>
        \A i \in EvalIdx :
            /\ (Evaluated(i) /\ HadAlertState(i) /\ Len(EvalProblems(i)) = 0) =>
                    /\ Cardinality(PostsOf(i, "recovery")) = 1
                    /\ EvalName(i) \notin DOMAIN lastAlerts
            /\ (~HadAlertState(i) /\ Len(EvalProblems(i)) = 0) => AnyPostOf(i) = {}

\* the problem set of the exclusion claim: the applications not named in the
\* exclusion list that are unhealthy or out of sync
ListedProblemSet(applications) ==
    SelectSeq(SelectSeq(applications, NotInExclusionList), IsProblematic)

\* C8: no application named in the exclusion list is in a cluster's problem set (so
\* no problem alert is sent for a cluster whose only problems are excluded ones), and
\* no application outside the list is dropped from it by the exclusion step.
C8_ExclusionInAlerting ==
    \A i \in EvalIdx :
        /\ \A k \in 1..Len(EvalProblems(i)) : EvalProblems(i)[k].name \notin EXCLUDED_APPS
        /\ EvalProblems(i) = ListedProblemSet(cycle.results[i].applications)
        /\ PostsOf(i, "problem") # {} =>
                Len(ListedProblemSet(cycle.results[i].applications)) > 0

\* C9: a failed Slack post for one cluster does not keep the clusters after it from
\* being evaluated in the same cycle: at the end of the cycle every cluster whose
\* own problem set and AlertState call for an alert or a recovery notice has had
\* its post.
C9_FailedDispatchDoesNotBlock ==
    cycle.finished =>
        \A i \in EvalIdx :
            Decision(cycle.results[i], cycle.pre, cycle.now) \in {"problem", "recovery"}
                => AnyPostOf(i) # {}

----------------------------------------------------------------------------
(* Properties of the snapshot cache *)

\* a snapshot has been stored by some cycle
SnapshotStored == lastStored # EmptyState

\* C10: once a snapshot has been stored, getGlobalState() returns the most recently
\* stored snapshot at every later moment, and never the empty snapshot.
C10_LastKnownGood ==
    SnapshotStored => getGlobalState = lastStored

\* C10 as amended: getGlobalState() returns the most recently stored snapshot up to
\* stdTTL (60 s) after it was stored, also while a later cycle is in flight or has
\* failed; once the TTL has run out with no newer snapshot stored it returns the
\* empty snapshot.
C10_LastKnownGoodUntilExpiry ==
    SnapshotStored =>
        /\ clock <= lastStored.lastUpdate + stdTTL => getGlobalState = lastStored
        /\ clock > lastStored.lastUpdate + stdTTL => getGlobalState = EmptyState

\* C10 witness: a later cycle is in flight at the last instant of the stored
\* snapshot's TTL, and the stored snapshot is what a reader gets
C10_Witness ==
    /\ SnapshotStored
    /\ \E c \in Callers : pc[c] = "collecting"
    /\ clock = lastStored.lastUpdate + stdTTL
    /\ getGlobalState = lastStored

\* C11: before any cycle has stored a snapshot, getGlobalState() returns the empty
\* snapshot: all eight counters zero, an empty cluster list and a null lastUpdate
\* (0 here), never an undefined or partially filled value.
C11_EmptyBeforeFirstStore ==
    ~SnapshotStored =>
        getGlobalState =
            [metrics |-> [totalApps |-> 0, healthyApps |-> 0, syncedApps |-> 0,
                          degradedApps |-> 0, failedApps |-> 0, outOfSyncApps |-> 0,
                          unknownApps |-> 0, processingApps |-> 0],
             clusters |-> <<>>,
             lastUpdate |-> 0]

\* C11 witness: the first cycle has been collecting for a minute, every cluster has
\* settled, and nothing has been stored yet
C11_Witness ==
    /\ ~SnapshotStored
    /\ clock > 1
    /\ pc["refreshData"] = "collecting"
    /\ settled["refreshData"] = ClusterIdx
    /\ getGlobalState.metrics.totalApps = 0

\* the positions <<cluster, application>> of a sequence of cluster results
AppPositions(results) ==
    UNION {{<<i, k>> : k \in 1..Len(results[i].applications)} : i \in 1..Len(results)}
\* the number of applications with a given health, respectively sync, status
CountHealth(results, h) ==
    Cardinality({p \in AppPositions(results) :
                    results[p[1]].applications[p[2]].healthStatus = h})
CountSync(results, y) ==
    Cardinality({p \in AppPositions(results) :
                    results[p[1]].applications[p[2]].syncStatus = y})
\* the eight counters as the aggregation contract states them
CountersOf(results) ==
    [totalApps      |-> Cardinality(AppPositions(results)),
     healthyApps    |-> CountHealth(results, "Healthy"),
     syncedApps     |-> CountSync(results, "Synced"),
     degradedApps   |-> CountHealth(results, "Degraded"),
     failedApps     |-> CountHealth(results, "Failed"),
     outOfSyncApps  |-> CountSync(results, "OutOfSync"),
     unknownApps    |-> CountHealth(results, "Unknown"),
     processingApps |-> CountSync(results, "Processing")]

\* C12: at every moment, also in the middle of a cycle, getGlobalState() returns
\* either the empty snapshot or the snapshot one cycle stored whole: one result per
\* cluster, metrics that are the aggregation of those very results, and that
\* cycle's lastUpdate.
C12_NoPartialSnapshot ==
    \/ getGlobalState = EmptyState
    \/ /\ getGlobalState = lastStored
       /\ Len(getGlobalState.clusters) = Len(ClusterNames)
       /\ getGlobalState.metrics = CountersOf(getGlobalState.clusters)
       /\ getGlobalState.lastUpdate > 0

\* C12 witness: a cycle that has stored its snapshot is in the middle of its alert
\* evaluation (one post made, the next awaited) and a reader gets that snapshot
C12_Witness ==
    /\ \E c \in Callers : pc[c] = "posting"
    /\ lastStored.lastUpdate > 1
    /\ getGlobalState = lastStored
    /\ getGlobalState.metrics.totalApps > 0
    /\ lastAlerts # EmptyMap

\* C18: after every completed alert evaluation, also one with failed fetches or
\* failed Slack posts, a cluster has an AlertState entry if and only if its problem
\* set in that evaluation was non-empty.
C18_AlertStateIffProblems ==
    cycle.finished =>
        \A i \in EvalIdx :
            EvalName(i) \in DOMAIN lastAlerts <=> Len(EvalProblems(i)) > 0

\* C21: within a cycle the aggregation starts only after every cluster's poll has
\* settled, the snapshot is stored with the metrics aggregated from the collected
\* results, and every alert or recovery dispatch of the cycle is made with that
\* cycle's snapshot already stored and, as long as its TTL runs, visible to
\* getGlobalState(); a failed dispatch leaves that snapshot stored and visible.
C21_PipelineOrder ==
    [][\A c \in Callers :
          /\ (pc[c] = "collecting" /\ pc'[c] # "collecting") =>
                /\ settled[c] = ClusterIdx
                /\ Len(cycle'.results) = Len(ClusterNames)
                /\ lastStored'.clusters = cycle'.results
                /\ lastStored'.metrics = calculateMetrics(cycle'.results)
                /\ lastStored'.lastUpdate = cycle'.now
                /\ GlobalStateAt(globalCache', clock') = lastStored'
          /\ (pc'[c] = "posting" /\ Len(cycle'.posts) > Len(cycle.posts)) =>
                /\ lastStored'.clusters = cycle'.results
                /\ lastStored'.lastUpdate = cycle'.now
                /\ clock' <= lastStored'.lastUpdate + stdTTL =>
                      GlobalStateAt(globalCache', clock') = lastStored'
          /\ (pc[c] = "posting" /\ pc'[c] = "idle"
                /\ cycle'.posts[Len(cycle'.posts)].status = "failed") =>
                /\ lastStored' = lastStored
                /\ lastStored'.clusters = cycle'.results
                /\ clock' <= lastStored'.lastUpdate + stdTTL =>
                      GlobalStateAt(globalCache', clock') = lastStored']_vars

\* C21 witness: a cycle has ended through the failure of its second dispatch, made
\* a minute after its snapshot was stored, and a reader gets that cycle's snapshot
C21_Witness ==
    /\ cycle.finished
    /\ Len(cycle.posts) = 2
    /\ cycle.posts[1].status = "ok"
    /\ cycle.posts[2].status = "failed"
    /\ clock = cycle.now + 1
    /\ lastStored.clusters = cycle.results
    /\ lastStored.lastUpdate = cycle.now
    /\ getGlobalState = lastStored

\* the outcome of the Slack post that caller c awaits, once the step has resolved it
PostOutcome(c) == cycle'.posts[Len(cycle.posts)].status

----------------------------------------------------------------------------
(* Properties of the scheduling (SpecSched) *)

\* C22: with the snapshot TTL of 60 s and the refresh interval of 60000 ms, and
\* every scheduled cycle started on time and run to completion (no callback has
\* found its predecessor in flight), no getGlobalState() call after the first
\* completed cycle gets the empty snapshot, whatever the durations of the cycles
\* within the request timeouts.  Stated for the moments at which every cycle
\* started so far has run to completion.
C22_NoExpiryWhileCyclesRun ==
    (sphase = "idle" /\ ~sstalled) => ~sexpiredSeen

----------------------------------------------------------------------------
(* Properties of the fan-out collector (SpecCollect) *)

\* the result cluster i is due from its own answer alone
ResultDue(i) ==
    [name |-> ClusterNames[i],
     url |-> ClusterUrl(ClusterNames[i]),
     applications |->
        IF answers[i].kind = "items"
        THEN [k \in 1..Len(answers[i].items) |-> MapApp(answers[i].items[k])]
        ELSE <<>>]
PollFailed(i) == answers[i].kind \in {"loginError", "fetchError"}

\* C13: a login or fetch failure of one cluster becomes a result with no
\* applications for that cluster; no promise of the batch is ever rejected, the
\* batch returns a result for every cluster, and each cluster's result is the one
\* due from its own answer, whatever the other clusters did.
C13_FailureIsolation ==
    /\ \A i \in ClusterIdx :
          /\ promises[i].state # "rejected"
          /\ PollFailed(i) => promises[i] = Fulfilled(EmptyResult(ClusterNames[i]))
    /\ batch = "done" =>
          /\ Len(batchResults) = Len(ClusterNames)
          /\ \A i \in ClusterIdx : batchResults[i] = ResultDue(i)

\* C13 witness: a batch has returned in which CLUSTER_1's login failed and
\* CLUSTER_2 delivered its applications
C13_Witness ==
    /\ batch = "done"
    /\ answers[1].kind = "loginError"
    /\ answers[2].kind = "items"
    /\ Len(batchResults) = 2
    /\ Len(batchResults[2].applications) > 0

\* C14: the collector returns exactly one result per configured cluster, in
\* configuration order, whatever the order in which the polls settled and
\* whichever of them failed.
C14_OneResultPerClusterInOrder ==
    batch = "done" =>
        /\ Len(batchResults) = Len(ClusterNames)
        /\ \A i \in 1..Len(batchResults) : batchResults[i].name = ClusterNames[i]

\* C14 witness: a batch has returned whose second cluster settled first, with a
\* failed listing, before the first one delivered its applications
C14_Witness ==
    /\ batch = "done"
    /\ order = <<2, 1>>
    /\ answers[2].kind = "fetchError"
    /\ answers[1].kind = "items"
    /\ Len(batchResults) = 2
    /\ batchResults[1].name = "CLUSTER_1"

\* C15: a getArgoCDToken for a cluster finds the cached token, and then makes no
\* login call, exactly when the cluster's last successful login is at most the
\* token TTL ago; every listing request carries the token of the cluster's last
\* successful login, and never one whose TTL has run out: after the expiry the
\* token comes from a new login.
C15_TokenReuseAndExpiry ==
    \A i \in ClusterIdx :
        getLog[i].at > 0 =>
            /\ getLog[i].hit <=>
                  (getLog[i].prior > 0 /\ getLog[i].at <= getLog[i].prior + tokenTTL)
            /\ getLog[i].hit => (poll[i].at # "login" /\ getLog[i].issued = getLog[i].prior)
            /\ poll[i].sentAt > 0 =>
                  /\ poll[i].token = TokenOf(ClusterNames[i], getLog[i].issued)
                  /\ poll[i].sentAt <= poll[i].token.issued + tokenTTL
                  /\ ~getLog[i].hit => poll[i].token.issued >= getLog[i].at

\* C15 witness: in one batch a cluster reuses the token of an earlier login, and
\* another, whose token has expired, has logged in again and sent the new token
C15_Witness ==
    /\ \E i \in ClusterIdx :
          /\ getLog[i].hit
          /\ getLog[i].at > getLog[i].prior
          /\ poll[i].sentAt = getLog[i].at
    /\ \E j \in ClusterIdx :
          /\ ~getLog[j].hit
          /\ getLog[j].prior > 0
          /\ getLog[j].at > getLog[j].prior + tokenTTL
          /\ poll[j].sentAt > 0

----------------------------------------------------------------------------
(* Properties of the aggregation (SpecAgg) *)

\* C16: for any sequence of cluster results, totalApps is the sum of the
\* per-cluster application counts and each health and each sync counter is the
\* number of applications with that status, health and sync counted independently;
\* [{Degraded,Synced},{Healthy,OutOfSync}] gives total 2, healthy 1, degraded 1,
\* synced 1, outOfSync 1.
C16_AggregationCounts ==
    aggOut.op = "calculateMetrics" =>
        /\ aggOut.metrics = CountersOf(aggInput)
        /\ aggOut.metrics.totalApps =
              Len(aggInput[1].applications) + Len(aggInput[2].applications)
        /\ (/\ aggInput[1].applications =
                  <<[name |-> N_web, healthStatus |-> "Degraded", syncStatus |-> "Synced"],
                    [name |-> N_web, healthStatus |-> "Healthy", syncStatus |-> "OutOfSync"]>>
            /\ aggInput[2].applications = <<>>)
           => aggOut.metrics =
                [totalApps |-> 2, healthyApps |-> 1, syncedApps |-> 1, degradedApps |-> 1,
                 failedApps |-> 0, outOfSyncApps |-> 1, unknownApps |-> 0,
                 processingApps |-> 0]

\* C16 witness: the metrics of results with applications in both clusters, among
\* them one that is both Degraded and OutOfSync, have been computed
C16_Witness ==
    /\ aggOut.op = "calculateMetrics"
    /\ Len(aggInput[1].applications) = 2
    /\ Len(aggInput[2].applications) = 1
    /\ aggOut.metrics.totalApps = 3
    /\ aggOut.metrics.degradedApps >= 1
    /\ aggOut.metrics.outOfSyncApps >= 1

\* C17: every application increments exactly one health counter, so that
\* healthyApps + degradedApps + failedApps + unknownApps = totalApps, and at most
\* one sync counter.
C17_OneHealthCounterPerApp ==
    aggOut.op = "calculateMetrics" =>
        /\ aggOut.metrics.healthyApps + aggOut.metrics.degradedApps
              + aggOut.metrics.failedApps + aggOut.metrics.unknownApps
           = aggOut.metrics.totalApps
        /\ aggOut.metrics.syncedApps + aggOut.metrics.outOfSyncApps
              + aggOut.metrics.processingApps
           <= aggOut.metrics.totalApps

\* the positions of the applications whose name is not in the exclusion list
VisiblePositions(results) ==
    {p \in AppPositions(results) :
        results[p[1]].applications[p[2]].name \notin EXCLUDED_APPS}

VisibleHealth(results, h) ==
    Cardinality({p \in VisiblePositions(results) :
                    results[p[1]].applications[p[2]].healthStatus = h})
VisibleSync(results, y) ==
    Cardinality({p \in VisiblePositions(results) :
                    results[p[1]].applications[p[2]].syncStatus = y})

\* C19: /metrics counts, in every counter, exactly the applications of the snapshot
\* whose name is not in the exclusion list, and /applications lists exactly those,
\* cluster by cluster.
C19_ExclusionAtEndpoints ==
    /\ aggOut.op = "/metrics" =>
          /\ aggOut.metrics.totalApps = Cardinality(VisiblePositions(aggInput))
          /\ aggOut.metrics.healthyApps = VisibleHealth(aggInput, "Healthy")
          /\ aggOut.metrics.degradedApps = VisibleHealth(aggInput, "Degraded")
          /\ aggOut.metrics.failedApps = VisibleHealth(aggInput, "Failed")
          /\ aggOut.metrics.unknownApps = VisibleHealth(aggInput, "Unknown")
          /\ aggOut.metrics.syncedApps = VisibleSync(aggInput, "Synced")
          /\ aggOut.metrics.outOfSyncApps = VisibleSync(aggInput, "OutOfSync")
          /\ aggOut.metrics.processingApps = VisibleSync(aggInput, "Processing")
    /\ aggOut.op = "/applications" =>
          /\ Len(aggOut.clusters) = Len(aggInput)
          /\ \A i \in 1..Len(aggInput) :
                /\ aggOut.clusters[i].name = aggInput[i].name
                /\ \A k \in 1..Len(aggOut.clusters[i].applications) :
                      aggOut.clusters[i].applications[k].name \notin EXCLUDED_APPS
                /\ Len(aggOut.clusters[i].applications) =
                      Cardinality({p \in VisiblePositions(aggInput) : p[1] = i})
                /\ \A k \in 1..Len(aggInput[i].applications) :
                      aggInput[i].applications[k].name \notin EXCLUDED_APPS =>
                          \E m \in 1..Len(aggOut.clusters[i].applications) :
                              aggOut.clusters[i].applications[m] = aggInput[i].applications[k]

\* C19 witness: /metrics has answered for a snapshot that holds argocd-apps and
\* my-argocd-apps in one cluster and argocd-initialize in the other, and counted one
\* application
C19_Witness ==
    /\ aggOut.op = "/metrics"
    /\ Len(aggInput[1].applications) = 2
    /\ aggInput[1].applications[1].name = N_argocd_apps
    /\ aggInput[1].applications[2].name = N_my_argocd_apps
    /\ Len(aggInput[2].applications) = 1
    /\ aggInput[2].applications[1].name = N_argocd_initialize
    /\ aggOut.metrics.totalApps = 1

\* C20: when a cluster's login or listing fails in a cycle, a notification about
\* that cluster being in trouble is posted to Slack by the alert evaluation of that
\* cycle.
C20_UnreachableNotified ==
    batch = "done" =>
        \A i \in ClusterIdx :
            PollFailed(i) =>
                \E k \in 1..Len(notices) :
                    /\ notices[k].cluster = ClusterNames[i]
                    /\ notices[k].kind = "problem"

\* the posts the alert evaluation makes for cluster i
NoticesOf(i) == {k \in 1..Len(notices) : notices[k].cluster = ClusterNames[i]}
\* the batch results with the result of cluster i replaced by the result of a
\* cluster that answered its listing with no items
WithCleanResult(i) ==
    [batchResults EXCEPT ![i] =
        processCluster(ClusterNames[i], [kind |-> "noItems", items |-> <<>>])]

----------------------------------------------------------------------------
(* Properties of the alert messages (SpecAgg) *)

\* the cluster result a message is about
ResultNamed(results, name) == results[CHOOSE i \in 1..Len(results) : results[i].name = name]
\* how often a name occurs in a sequence of names
Occurrences(names, n) == Cardinality({k \in 1..Len(names) : names[k] = n})
\* how often a message lists a name, over its four groups
ListedTimes(m, n) ==
    Occurrences(m.Missing, n) + Occurrences(m.Unknown, n)
        + Occurrences(m.Degraded, n) + Occurrences(m.OutOfSync, n)
\* the number of applications a message lists
ListedCount(m) == Len(m.Missing) + Len(m.Unknown) + Len(m.Degraded) + Len(m.OutOfSync)

\* C23: every application in the problem set of a dispatched problem alert is
\* listed in exactly one of the groups Missing, Unknown, Degraded, OutOfSync of the
\* alert's message (a name is listed once for each application of the problem set
\* that bears it), and no problem alert is dispatched whose message lists no
\* application.
C23_EveryProblemListedOnce ==
    aggOut.op = "sendSlackUpdates" =>
        \A k \in 1..Len(aggOut.messages) :
            LET m == aggOut.messages[k]
                problems == problematicApps(ResultNamed(aggInput, m.cluster).applications)
            IN m.kind = "problem" =>
                  /\ ListedCount(m) > 0
                  /\ \A a \in 1..Len(problems) :
                        ListedTimes(m, problems[a].name)
                            = Occurrences(AppNames(problems), problems[a].name)

====
